---- MODULE Spec2Model ----
(***************************************************************************)
(* A model of gantt_chart_rs: GanttChartTool::run reads a ChartData,       *)
(* lays it out with process_chart_data and draws it with render_chart.     *)
(*                                                                         *)
(* Dates (chrono::NaiveDate) are day numbers counted from 2023-01-01       *)
(* (day 0); the proleptic Gregorian calendar is modelled over the years    *)
(* of Years.  f32 values are exact rationals <<n, d>> in lowest terms      *)
(* with d > 0, extended by the IEEE specials <<1, 0>> (+inf), <<-1, 0>>    *)
(* (-inf) and <<0, 0>> (NaN): rounding of f32 arithmetic is not modelled.  *)
(* Option<T> is a sequence: <<>> is None and <<v>> is Some(v).             *)
(***************************************************************************)
EXTENDS Integers, Sequences, FiniteSets, TLC

(***************************************************************************)
(* Bounds of the model                                                     *)
(***************************************************************************)
\* the longest item list the model draws (lists of 0 .. MaxItems items)
MaxItems == 3
\* the largest item duration, in days, the model draws
MaxDuration == 1

(***************************************************************************)
(* Option<T>                                                               *)
(***************************************************************************)
None == <<>>
Some(v) == <<v>>
IsSome(o) == Len(o) > 0
Unwrap(o) == o[1]

(***************************************************************************)
(* f32 as extended rationals                                               *)
(***************************************************************************)
RECURSIVE Gcd(_, _)
Gcd(a, b) ==
    IF b = 0 THEN a ELSE Gcd(b, a % b)

Abs(n) ==
    IF n < 0 THEN -n ELSE n

Sign(n) ==
    IF n < 0 THEN -1 ELSE 1

\* the rational n/d (d # 0) in lowest terms with a positive denominator
Rat(n, d) ==
    IF d = 1 THEN <<n, 1>>
    ELSE LET g == Gcd(Abs(n), Abs(d))
         IN  <<(Sign(d) * n) \div g, Abs(d) \div g>>

F(n) == <<n, 1>>
NaN == <<0, 0>>
Inf(s) == <<s, 0>>
IsNaN(a) == a = NaN
IsInf(a) == a[2] = 0 /\ a[1] # 0
IsFinite(a) == a[2] > 0

FAdd(a, b) ==
    IF a[2] > 0 /\ b[2] > 0 THEN Rat(a[1] * b[2] + b[1] * a[2], a[2] * b[2])
    ELSE IF IsNaN(a) \/ IsNaN(b) THEN NaN
    ELSE IF IsInf(a) /\ IsInf(b) THEN (IF a = b THEN a ELSE NaN)
    ELSE IF IsInf(a) THEN a
    ELSE b

FNeg(a) == <<-a[1], a[2]>>

FSub(a, b) == FAdd(a, FNeg(b))

FMul(a, b) ==
    IF a[2] > 0 /\ b[2] > 0 THEN Rat(a[1] * b[1], a[2] * b[2])
    ELSE IF IsNaN(a) \/ IsNaN(b) THEN NaN
    ELSE IF a[1] = 0 \/ b[1] = 0 THEN NaN
    ELSE Inf(Sign(a[1]) * Sign(b[1]))

FDiv(a, b) ==
    IF a[2] > 0 /\ b[2] > 0 /\ b[1] # 0 THEN Rat(a[1] * b[2], a[2] * b[1])
    ELSE IF IsNaN(a) \/ IsNaN(b) THEN NaN
    ELSE IF IsInf(a) THEN (IF IsInf(b) THEN NaN ELSE Inf(Sign(a[1]) * Sign(b[1])))
    ELSE IF IsInf(b) THEN F(0)
    ELSE IF a[1] = 0 THEN NaN
    ELSE Inf(Sign(a[1]))

\* a <= b on f32: false whenever a NaN is involved
FLe(a, b) ==
    /\ ~IsNaN(a)
    /\ ~IsNaN(b)
    /\ IF IsInf(a) \/ IsInf(b)
       THEN a = b \/ a = Inf(-1) \/ b = Inf(1)
       ELSE a[1] * b[2] <= b[1] * a[2]

\* `x as u32` of a finite non-negative f32: truncation
FTrunc(a) == a[1] \div a[2]

RECURSIVE FSum(_)
FSum(s) ==
    IF Len(s) = 0 THEN F(0) ELSE FAdd(FSum(SubSeq(s, 1, Len(s) - 1)), s[Len(s)])

(***************************************************************************)
(* chrono::NaiveDate, Weekday and Duration                                 *)
(***************************************************************************)
Years == 2023 .. 2026

IsLeap(y) ==
    (y % 4 = 0 /\ y % 100 # 0) \/ y % 400 = 0

MonthLength(y, m) ==
    IF m = 2 THEN (IF IsLeap(y) THEN 29 ELSE 28)
    ELSE IF m \in {4, 6, 9, 11} THEN 30 ELSE 31

RECURSIVE DaysBeforeYear(_)
DaysBeforeYear(y) ==
    IF y <= 2023 THEN 0
    ELSE DaysBeforeYear(y - 1) + (IF IsLeap(y - 1) THEN 366 ELSE 365)

RECURSIVE DaysBeforeMonth(_, _)
DaysBeforeMonth(y, m) ==
    IF m <= 1 THEN 0 ELSE DaysBeforeMonth(y, m - 1) + MonthLength(y, m - 1)

\* the day number of the first day of each month of Years
MonthStart ==
    [y \in Years |-> [m \in 1 .. 12 |-> DaysBeforeYear(y) + DaysBeforeMonth(y, m)]]

\* the year, month and day of each day number of Years
Calendar ==
    [date \in 0 .. (MonthStart[2026][12] + 30) |->
        LET y == CHOOSE yy \in Years :
                    /\ MonthStart[yy][1] <= date
                    /\ date < MonthStart[yy][12] + 31
            m == CHOOSE mm \in 1 .. 12 :
                    /\ MonthStart[y][mm] <= date
                    /\ date < MonthStart[y][mm] + MonthLength(y, mm)
        IN  [year |-> y, month |-> m, day |-> date - MonthStart[y][m] + 1]]

\* NaiveDate::from_ymd_opt(y, m, d).unwrap()
from_ymd(y, m, d) ==
    MonthStart[y][m] + (d - 1)

\* Datelike::year, month, day
year(date) == Calendar[date].year

month(date) == Calendar[date].month

day(date) == Calendar[date].day

\* NaiveDate::pred_opt().unwrap()
pred(date) == date - 1

\* Datelike::weekday: 2023-01-01 (day 0) is a Sunday
weekday(date) ==
    <<"Sun", "Mon", "Tue", "Wed", "Thu", "Fri", "Sat">>[(date % 7) + 1]

\* NaiveDate::MAX and NaiveDate::MIN: beyond every date of the model
NaiveDateMAX == 95000000
NaiveDateMIN == -96000000

(***************************************************************************)
(* Constants of lib.rs                                                     *)
(***************************************************************************)
\* GOLDEN_RATIO_CONJUGATE: 0.618034
GOLDEN_RATIO_CONJUGATE == Rat(618034, 1000000)

MONTH_NAMES ==
    <<"Jan", "Feb", "Mar", "Apr", "May", "Jun", "Jul", "Aug", "Sep", "Oct", "Nov", "Dec">>

\* the error texts of process_chart_data
ErrTooFewItems == "You must provide more than one task"
ErrMissingStartDate == "First item must contain a start date"
ErrMissingResourceIndex == "First item must contain a resource index"
ErrResourceIndexOutOfRange == "Resource index is out of range"

\* Gutter { left, top, right, bottom } with its derived height() and width()
Gutter(l, t, r, b) == [left |-> F(l), top |-> F(t), right |-> F(r), bottom |-> F(b)]
height(g) == FAdd(g.bottom, g.top)
width(g) == FAdd(g.right, g.left)

gutter == Gutter(10, 80, 10, 10)
row_gutter == Gutter(5, 5, 5, 5)
row_height == FAdd(height(row_gutter), F(20))
resource_gutter == Gutter(10, 10, 10, 10)
resource_height == FAdd(height(resource_gutter), F(20))
rect_corner_radius == F(3)

(***************************************************************************)
(* process_chart_data: date and duration helpers                           *)
(***************************************************************************)
\* the number of days of a month: the first day of the next month is
\* preceded by the last day of the original month
num_days_in_month(y, m) ==
    LET ny == IF m = 12 THEN y + 1 ELSE y
        nm == IF m = 12 THEN 1 ELSE m + 1
        d == from_ymd(ny, nm, 1)
    IN  day(pred(d))

\* "Move the start if it falls on a weekend"
skip_weekend_start(date) ==
    IF weekday(date) = "Sat" THEN date + 2
    ELSE IF weekday(date) = "Sun" THEN date + 1
    ELSE date

\* a shadow duration that takes a Saturday for a one-day weekend
shadow_duration_short_weekend(date, item_days) ==
    IF weekday(date + item_days) = "Sat" THEN item_days + 1
    ELSE IF weekday(date + item_days) = "Sun" THEN item_days + 1
    ELSE item_days

\* "Skip the weekends": the real (shadow) duration of item_days days
\* counted from the running date
shadow_duration(date, item_days) ==
    IF weekday(date + item_days) = "Sat" THEN item_days + 2
    ELSE IF weekday(date + item_days) = "Sun" THEN item_days + 1
    ELSE item_days

(***************************************************************************)
(* process_chart_data: "Determine the project start & end dates"           *)
(***************************************************************************)
\* the state of the first loop before its first iteration
scan_init ==
    [start_date |-> NaiveDateMAX, end_date |-> NaiveDateMIN, date |-> NaiveDateMIN,
     shadow_durations |-> <<>>, err |-> None]

\* the project start after item i's start date has been seen
scan_start_date(start_date, item_start_date) ==
    IF item_start_date < start_date
    THEN skip_weekend_start(item_start_date)
    ELSE start_date

\* a resource check that lets the index resources.len() through
scan_resource_check_off_by_one(item, i, num_resources) ==
    IF IsSome(item.resource_index)
    THEN (IF Unwrap(item.resource_index) > num_resources
          THEN Some(ErrResourceIndexOutOfRange)
          ELSE None)
    ELSE IF i = 1 THEN Some(ErrMissingResourceIndex)
    ELSE None

\* a resource check that wants a resource index on every item
scan_resource_check_every_item(item, i, num_resources) ==
    IF IsSome(item.resource_index)
    THEN (IF Unwrap(item.resource_index) >= num_resources
          THEN Some(ErrResourceIndexOutOfRange)
          ELSE None)
    ELSE Some(ErrMissingResourceIndex)

\* the resource check that ends an iteration of the first loop
scan_resource_check(item, i, num_resources) ==
    IF IsSome(item.resource_index)
    THEN (IF Unwrap(item.resource_index) >= num_resources
          THEN Some(ErrResourceIndexOutOfRange)
          ELSE None)
    ELSE IF i = 1 THEN Some(ErrMissingResourceIndex)
    ELSE None

\* one iteration of the first loop, on item i (1-based: i = 1 is the code's i == 0)
scan_item(chart_data, i, st) ==
    LET item == chart_data.items[i]
    IN  IF ~IsSome(item.start_date) /\ i = 1
        THEN [st EXCEPT !.err = Some(ErrMissingStartDate)]
        ELSE
            LET date1 == IF IsSome(item.start_date) THEN Unwrap(item.start_date) ELSE st.date
                start1 == IF IsSome(item.start_date)
                          THEN scan_start_date(st.start_date, Unwrap(item.start_date))
                          ELSE st.start_date
                shadow == IF IsSome(item.duration)
                          THEN Some(shadow_duration(date1, Unwrap(item.duration)))
                          ELSE None
                date2 == IF IsSome(shadow) THEN date1 + Unwrap(shadow) ELSE date1
                end1 == IF st.end_date < date2 THEN date2 ELSE st.end_date
            IN  [start_date |-> start1, end_date |-> end1, date |-> date2,
                 shadow_durations |-> Append(st.shadow_durations, shadow),
                 err |-> scan_resource_check(item, i, Len(chart_data.resources))]

\* the first loop from item i on: it ends at the first error
RECURSIVE scan_items(_, _, _)
scan_items(chart_data, i, st) ==
    IF i > Len(chart_data.items) \/ IsSome(st.err) THEN st
    ELSE scan_items(chart_data, i + 1, scan_item(chart_data, i, st))

\* the project start snapped to the first day of its month
normalize_start(start_date) ==
    from_ymd(year(start_date), month(start_date), 1)

\* the project end snapped to the last day of its month
normalize_end(end_date) ==
    from_ymd(year(end_date), month(end_date),
             num_days_in_month(year(end_date), month(end_date)))

(***************************************************************************)
(* process_chart_data: "Create all the column data"                        *)
(***************************************************************************)
\* a column width on a scale of 30-day months
column_width_of_30(max_month_width, item_days) ==
    FDiv(FMul(max_month_width, F(item_days)), F(30))

\* the pixel width of a month of item_days days
column_width(max_month_width, item_days) ==
    FDiv(FMul(max_month_width, F(item_days)), F(31))

\* the first day of the month after date's month
next_month(date) ==
    from_ymd(year(date) + (IF month(date) = 12 THEN 1 ELSE 0), (month(date) % 12) + 1, 1)

\* the while loop from date on; acc holds all_items_width, num_item_days, cols
RECURSIVE column_loop(_, _, _, _)
column_loop(date, end_date, max_month_width, acc) ==
    IF ~(date <= end_date) THEN acc
    ELSE
        LET item_days == num_days_in_month(year(date), month(date))
            item_width == column_width(max_month_width, item_days)
        IN  column_loop(next_month(date), end_date, max_month_width,
                [all_items_width |-> FAdd(acc.all_items_width, item_width),
                 num_item_days |-> acc.num_item_days + item_days,
                 cols |-> Append(acc.cols,
                                 [width |-> item_width,
                                  month_name |-> MONTH_NAMES[month(date)]])])

column_init ==
    [all_items_width |-> F(0), num_item_days |-> 0, cols |-> <<>>]

(***************************************************************************)
(* process_chart_data: "Calculate the X offsets of all the bars and        *)
(* milestones"                                                             *)
(***************************************************************************)
\* the x coordinate of a date on the time axis
date_offset(title_width, date, start_date, num_item_days, all_items_width) ==
    FAdd(FAdd(title_width, gutter.left),
         FMul(FDiv(F(date - start_date), F(num_item_days)), all_items_width))

\* the pixel length of a bar of item_days (shadow) days
bar_length(item_days, num_item_days, all_items_width) ==
    FMul(FDiv(F(item_days), F(num_item_days)), all_items_width)

\* a resource index that falls back to resource 0
row_resource_index_default(item, resource_index) ==
    IF IsSome(item.resource_index) THEN Unwrap(item.resource_index) ELSE 0

\* the resource index row i is given: the item's own or the one carried over
row_resource_index(item, resource_index) ==
    IF IsSome(item.resource_index) THEN Unwrap(item.resource_index) ELSE resource_index

\* the date row i starts at: the item's own or the running date
row_date(item, date) ==
    IF IsSome(item.start_date) THEN Unwrap(item.start_date) ELSE date

\* a running date that a row does not advance
row_next_date_kept(date, shadow) == date

\* the running date after a row: advanced by the row's shadow duration
row_next_date(date, shadow) ==
    IF IsSome(shadow) THEN date + Unwrap(shadow) ELSE date

\* a row length that makes a milestone a bar of no days
row_length_of_milestone(shadow, num_item_days, all_items_width) ==
    IF IsSome(shadow)
    THEN Some(bar_length(Unwrap(shadow), num_item_days, all_items_width))
    ELSE Some(bar_length(0, num_item_days, all_items_width))

\* the length of a row: that of its shadow duration, none for a milestone
row_length(shadow, num_item_days, all_items_width) ==
    IF IsSome(shadow)
    THEN Some(bar_length(Unwrap(shadow), num_item_days, all_items_width))
    ELSE None

\* the second loop over the items from item i on; st holds date,
\* resource_index and rows; lay holds what the earlier steps computed
RECURSIVE row_loop(_, _, _, _, _)
row_loop(chart_data, title_width, lay, i, st) ==
    IF i > Len(chart_data.items) THEN st
    ELSE
        LET item == chart_data.items[i]
            date1 == row_date(item, st.date)
            offset == date_offset(title_width, date1, lay.start_date,
                                  lay.num_item_days, lay.all_items_width)
            shadow == lay.shadow_durations[i]
            date2 == row_next_date(date1, shadow)
            length == row_length(shadow, lay.num_item_days, lay.all_items_width)
            res == row_resource_index(item, st.resource_index)
        IN  row_loop(chart_data, title_width, lay, i + 1,
                [date |-> date2, resource_index |-> res,
                 rows |-> Append(st.rows,
                                 [title |-> item.title, resource_index |-> res,
                                  offset |-> offset, length |-> length,
                                  open |-> IF IsSome(item.open)
                                           THEN Unwrap(item.open) ELSE FALSE])])

(***************************************************************************)
(* process_chart_data: marker, styles and colours                          *)
(***************************************************************************)
\* a | b on unsigned integers
RECURSIVE BitOr(_, _)
BitOr(a, b) ==
    IF a = 0 THEN b
    ELSE IF b = 0 THEN a
    ELSE (IF a % 2 = 1 \/ b % 2 = 1 THEN 1 ELSE 0) + 2 * BitOr(a \div 2, b \div 2)

\* the inner fn rgb of hsv_to_rgb
rgb(r, g, b) ==
    BitOr(BitOr(FTrunc(FMul(r, F(256))) * 65536, FTrunc(FMul(g, F(256))) * 256),
          FTrunc(FMul(b, F(256))))

hsv_to_rgb(h, s, v) ==
    LET h_i == FTrunc(FMul(h, F(6)))
        f == FSub(FMul(h, F(6)), F(h_i))
        p == FMul(v, FSub(F(1), s))
        q == FMul(v, FSub(F(1), FMul(f, s)))
        t == FMul(v, FSub(F(1), FMul(FSub(F(1), f), s)))
    IN  IF h_i = 0 THEN rgb(v, t, p)
        ELSE IF h_i = 1 THEN rgb(q, v, p)
        ELSE IF h_i = 2 THEN rgb(p, v, t)
        ELSE IF h_i = 3 THEN rgb(p, q, v)
        ELSE IF h_i = 4 THEN rgb(t, p, v)
        ELSE rgb(v, p, q)

\* format!("{n:x}")
RECURSIVE HexDigits(_)
HexDigits(n) ==
    LET d == <<"0", "1", "2", "3", "4", "5", "6", "7",
               "8", "9", "a", "b", "c", "d", "e", "f">>[(n % 16) + 1]
    IN  IF n < 16 THEN d ELSE HexDigits(n \div 16) \o d

\* the number of hexadecimal digits of n
RECURSIVE HexLen(_)
HexLen(n) ==
    IF n < 16 THEN 1 ELSE 1 + HexLen(n \div 16)

\* format!("{n:06x}"): zero-padded to six digits
RECURSIVE ZeroPad(_, _)
ZeroPad(str, missing) ==
    IF missing <= 0 THEN str ELSE ZeroPad("0" \o str, missing - 1)

Hex06(n) ==
    ZeroPad(HexDigits(n), 6 - HexLen(n))

\* (h + GOLDEN_RATIO_CONJUGATE) % 1.0, for 0 <= h < 1
next_hue(h) ==
    LET sum == FAdd(h, GOLDEN_RATIO_CONJUGATE)
    IN  FSub(sum, F(FTrunc(sum)))

\* the two style rules of resource i (0-based) with colour c
resource_styles(i, c) ==
    <<".resource-" \o ToString(i) \o "-closed{stroke-width:1; stroke:#" \o Hex06(c)
          \o "; fill:#" \o Hex06(c) \o ";}",
      ".resource-" \o ToString(i) \o "-open{stroke-width:2; stroke:#" \o Hex06(c)
          \o "; fill:none;}">>

fixed_styles ==
    <<".outer-lines{ stroke-width:3; stroke:#aaaaaa;}",
      ".inner-lines{ stroke-width:2; stroke:#dddddd;}",
      ".item{font-family:Arial; font-size:12pt; dominant-baseline:middle;}",
      ".resource{font-family:Arial; font-size:12pt; text-anchor:end; dominant-baseline:middle;}",
      ".title{font-family:Arial; font-size:18pt;}",
      ".heading{font-family:Arial; font-size:16pt; dominant-baseline:middle; text-anchor:middle;}",
      ".task-heading{dominant-baseline:middle; text-anchor:start;}",
      ".milestone{fill:black;stroke-width:1;stroke:black;}",
      ".marker{stroke-width:2; stroke:#888888; stroke-dasharray:7;}">>

\* the colour loop from resource i (0-based) on, with running hue h
RECURSIVE style_loop(_, _, _, _)
style_loop(num_resources, i, h, styles) ==
    IF i >= num_resources THEN styles
    ELSE style_loop(num_resources, i + 1, next_hue(h),
                    styles \o resource_styles(i, hsv_to_rgb(h, Rat(1, 2), Rat(1, 2))))

\* chart_data.marked_date.map(...)
marked_date_offset(chart_data, title_width, lay) ==
    IF IsSome(chart_data.marked_date)
    THEN Some(date_offset(title_width, Unwrap(chart_data.marked_date), lay.start_date,
                          lay.num_item_days, lay.all_items_width))
    ELSE None

(***************************************************************************)
(* process_chart_data                                                      *)
(***************************************************************************)
Err(e) == [ok |-> FALSE, err |-> e]
Ok(v) == [ok |-> TRUE, val |-> v]

\* the locals the steps before the row loop leave, from the scan result sc,
\* the normalized range and the column loop's result acc
layout_record(sc, start_date, end_date, acc) ==
    [start_date |-> start_date, end_date |-> end_date,
     shadow_durations |-> sc.shadow_durations,
     all_items_width |-> acc.all_items_width,
     num_item_days |-> acc.num_item_days, cols |-> acc.cols]

layout_range(sc, start_date, end_date, max_month_width) ==
    layout_record(sc, start_date, end_date,
                  column_loop(start_date, end_date, max_month_width, column_init))

layout_of(sc, max_month_width) ==
    layout_range(sc, normalize_start(sc.start_date), normalize_end(sc.end_date),
                 max_month_width)

\* what process_chart_data has computed when it draws the hue h: the
\* locals sc and lay, the rows and the marker offset
geometry_of(title_width, chart_data, sc, lay) ==
    [err |-> None, scan |-> sc, lay |-> lay,
     rows |-> row_loop(chart_data, title_width, lay, 1,
                       [date |-> lay.start_date, resource_index |-> 0,
                        rows |-> <<>>]).rows,
     marked_date_offset |-> marked_date_offset(chart_data, title_width, lay)]

process_scanned(title_width, max_month_width, chart_data, sc) ==
    IF IsSome(sc.err)
    THEN [err |-> sc.err]
    ELSE geometry_of(title_width, chart_data, sc, layout_of(sc, max_month_width))

\* a process_chart_data that is content with a single item
process_geometry_single_item(title_width, max_month_width, chart_data) ==
    IF Len(chart_data.items) < 1
    THEN [err |-> Some(ErrTooFewItems)]
    ELSE process_scanned(title_width, max_month_width, chart_data,
                         scan_items(chart_data, 1, scan_init))

\* process_chart_data up to the draw of the hue: an error, or the geometry
process_geometry(title_width, max_month_width, chart_data) ==
    IF Len(chart_data.items) < 2
    THEN [err |-> Some(ErrTooFewItems)]
    ELSE process_scanned(title_width, max_month_width, chart_data,
                         scan_items(chart_data, 1, scan_init))

\* a RenderData whose marker offset is shifted by the hue
render_data_hue_in_marker(title_width, max_month_width, chart_data, h, geo) ==
    [title |-> chart_data.title,
     gutter |-> gutter,
     row_gutter |-> row_gutter,
     row_height |-> row_height,
     resource_gutter |-> resource_gutter,
     resource_height |-> resource_height,
     styles |-> style_loop(Len(chart_data.resources), 0, h, fixed_styles),
     title_width |-> title_width,
     max_month_width |-> max_month_width,
     marked_date_offset |-> IF IsSome(geo.marked_date_offset)
                            THEN Some(FAdd(Unwrap(geo.marked_date_offset), h))
                            ELSE None,
     rect_corner_radius |-> rect_corner_radius,
     cols |-> geo.lay.cols,
     rows |-> geo.rows,
     resources |-> chart_data.resources]

\* the RenderData returned, from the geometry geo and the hue h
render_data(title_width, max_month_width, chart_data, h, geo) ==
    [title |-> chart_data.title,
     gutter |-> gutter,
     row_gutter |-> row_gutter,
     row_height |-> row_height,
     resource_gutter |-> resource_gutter,
     resource_height |-> resource_height,
     styles |-> style_loop(Len(chart_data.resources), 0, h, fixed_styles),
     title_width |-> title_width,
     max_month_width |-> max_month_width,
     marked_date_offset |-> geo.marked_date_offset,
     rect_corner_radius |-> rect_corner_radius,
     cols |-> geo.lay.cols,
     rows |-> geo.rows,
     resources |-> chart_data.resources]

\* the rest of process_chart_data, with the hue h drawn from
\* rand::thread_rng(): its result and, when Ok, its locals
process_finish(title_width, max_month_width, chart_data, h, geo) ==
    IF IsSome(geo.err)
    THEN [result |-> Err(Unwrap(geo.err)), locals |-> None]
    ELSE [result |-> Ok(render_data(title_width, max_month_width, chart_data, h, geo)),
          locals |-> Some([scan |-> geo.scan, lay |-> geo.lay, h |-> h])]

process_chart_data(title_width, max_month_width, chart_data, h) ==
    process_finish(title_width, max_month_width, chart_data, h,
                   process_geometry(title_width, max_month_width, chart_data)).result

(***************************************************************************)
(* render_chart: the svg document as a tree of nodes.  A node is           *)
(* [tag, class, text, at]: at lists the node's coordinates in the order    *)
(* the code sets them.                                                     *)
(***************************************************************************)
Node(tag, class, text, at) ==
    [tag |-> tag, class |-> class, text |-> text, at |-> at]

\* chart.cols.iter().take(n).map(|col| col.width).sum::<f32>()
sum_widths(cols, n) ==
    FSum([k \in 1 .. n |-> cols[k].width])

chart_width(chart) ==
    FAdd(FAdd(FAdd(chart.gutter.left, chart.title_width),
              sum_widths(chart.cols, Len(chart.cols))),
         chart.gutter.right)

chart_height(use_legend, chart) ==
    FAdd(FAdd(FAdd(chart.gutter.top, FMul(F(Len(chart.rows)), chart.row_height)),
              IF use_legend
              THEN FAdd(height(chart.resource_gutter), chart.row_height)
              ELSE F(0)),
         chart.gutter.bottom)

\* the top of row i (0-based), and of the line below the last row
row_y(chart, i) ==
    FAdd(chart.gutter.top, FMul(F(i), chart.row_height))

\* the class of the bar of a row
bar_class(row) ==
    "resource-" \o ToString(row.resource_index)
        \o (IF row.open THEN "-open" ELSE "-closed")

\* the three nodes of row i (0-based): title, bar or milestone, divider
row_nodes(chart, i, row, x1, x2) ==
    LET y == row_y(chart, i)
        inner == FSub(chart.row_height, height(chart.row_gutter))
        n == FDiv(inner, F(2))
    IN  << Node("text", "item", row.title,
                <<FAdd(chart.gutter.left, chart.row_gutter.left),
                  FAdd(FAdd(y, chart.row_gutter.top), FDiv(chart.row_height, F(2)))>>),
           IF IsSome(row.length)
           THEN Node("rect", bar_class(row), "",
                     <<row.offset, FAdd(y, chart.row_gutter.top),
                       chart.rect_corner_radius, chart.rect_corner_radius,
                       Unwrap(row.length), inner>>)
           ELSE Node("path", "", "",
                     <<FSub(row.offset, n), FAdd(FAdd(y, chart.row_gutter.top), n), n>>),
           Node("line", IF i = 0 THEN "outer-lines" ELSE "inner-lines", "",
                <<x1, y, x2, y>>) >>

RECURSIVE rows_group(_, _, _, _)
rows_group(chart, i, x1, x2) ==
    IF i >= Len(chart.rows)
    THEN <<Node("line", "outer-lines", "",
                <<x1, row_y(chart, Len(chart.rows)), x2, row_y(chart, Len(chart.rows))>>)>>
    ELSE row_nodes(chart, i, chart.rows[i + 1], x1, x2) \o rows_group(chart, i + 1, x1, x2)

\* the left edge of column i (0-based)
col_line_x(chart, i) ==
    FAdd(FAdd(chart.gutter.left, chart.title_width), sum_widths(chart.cols, i))

\* the x coordinate of the month label of column i (0-based)
col_label_x(chart, i) ==
    FAdd(col_line_x(chart, i), FDiv(chart.max_month_width, F(2)))

\* the y coordinate of the headings
heading_y(chart) ==
    FSub(FSub(chart.gutter.top, chart.row_gutter.bottom), FDiv(chart.row_height, F(2)))

\* the two nodes of column i (0-based): month label and divider
col_nodes(chart, i, col) ==
    LET y2 == row_y(chart, Len(chart.rows))
    IN  << Node("text", "heading", col.month_name,
                <<col_label_x(chart, i), heading_y(chart)>>),
           Node("line", "inner-lines", "",
                <<col_line_x(chart, i), chart.gutter.top, col_line_x(chart, i), y2>>) >>

RECURSIVE cols_group(_, _)
cols_group(chart, i) ==
    IF i >= Len(chart.cols)
    THEN LET x == FAdd(chart.gutter.left, chart.title_width)
         IN  <<Node("line", "inner-lines", "",
                    <<x, chart.gutter.top, x, row_y(chart, Len(chart.rows))>>)>>
    ELSE col_nodes(chart, i, chart.cols[i + 1]) \o cols_group(chart, i + 1)

\* the "Date marker"
marker_nodes(chart) ==
    IF IsSome(chart.marked_date_offset)
    THEN LET offset == Unwrap(chart.marked_date_offset)
         IN  <<Node("line", "marker", "",
                    <<offset, FSub(chart.gutter.top, F(5)),
                      offset, FAdd(row_y(chart, Len(chart.rows)), F(5))>>)>>
    ELSE <<>>

\* the two legend nodes of resource i (0-based)
legend_nodes(chart, i, res) ==
    LET y == row_y(chart, Len(chart.rows))
        block_width == FSub(chart.resource_height, height(chart.resource_gutter))
    IN  << Node("text", "resource", res,
                <<FSub(FAdd(chart.resource_gutter.left, FMul(F(i + 1), F(100))), F(5)),
                  FAdd(y, FDiv(chart.resource_height, F(2)))>>),
           Node("rect", "resource-" \o ToString(i) \o "-closed", "",
                <<FAdd(FAdd(chart.resource_gutter.left, FMul(F(i + 1), F(100))), F(5)),
                  FAdd(y, chart.resource_gutter.top),
                  chart.rect_corner_radius, chart.rect_corner_radius,
                  block_width, block_width>>) >>

RECURSIVE legend_group(_, _)
legend_group(chart, i) ==
    IF i >= Len(chart.resources) THEN <<>>
    ELSE legend_nodes(chart, i, chart.resources[i + 1]) \o legend_group(chart, i + 1)

\* the document, its children in the order they are appended
render_chart(use_legend, chart) ==
    LET w == chart_width(chart)
        h == chart_height(use_legend, chart)
        x1 == chart.gutter.left
        x2 == FSub(w, chart.gutter.right)
    IN  [width |-> w,
         height |-> h,
         viewBox |-> <<F(0), F(0), w, h>>,
         style |-> chart.styles,
         rows_g |-> rows_group(chart, 0, x1, x2),
         cols_g |-> cols_group(chart, 0),
         tasks |-> Node("text", "heading task-heading", "Tasks",
                        <<FAdd(chart.gutter.left, chart.row_gutter.left), heading_y(chart)>>),
         title |-> Node("text", "title", chart.title, <<chart.gutter.left, F(25)>>),
         marker |-> marker_nodes(chart),
         legend_g |-> IF use_legend THEN Some(legend_group(chart, 0)) ELSE None]

(***************************************************************************)
(* The inputs the model draws                                              *)
(***************************************************************************)
\* the item start dates of the date schedules: a Friday at the end of a
\* year and the Sunday that ends March of a leap year
StartDates ==
    {from_ymd(2023, 12, 29), from_ymd(2024, 3, 31)}

\* the item start date of the resource schedules: the Saturday before
\* that Sunday
ResourceStartDates ==
    {from_ymd(2024, 3, 30)}

MarkedDates == {from_ymd(2024, 1, 15)}

\* the item durations: 1 .. MaxDuration days, and a negative one
Durations == {-2} \cup (1 .. MaxDuration)

Resources == <<"Alice", "Bob">>

\* resource indexes: those of Resources and the first one out of range
ResourceIndexes == 0 .. Len(Resources)

Opt(S) == {None} \cup {Some(v) : v \in S}

\* item i: odd items leave open out, even items are open
ItemData(i, duration, start_date, resource_index) ==
    [title |-> "T" \o ToString(i), duration |-> duration, start_date |-> start_date,
     resource_index |-> resource_index,
     open |-> IF i % 2 = 0 THEN Some(TRUE) ELSE None]

ChartData(marked_date, items) ==
    [title |-> "Chart", marked_date |-> marked_date, resources |-> Resources,
     items |-> items]

\* schedules whose dates and durations vary: item 0 alone names a resource
DateFields ==
    [duration : Opt(Durations), start_date : Opt(StartDates)]

DateSchedules(n) ==
    { ChartData(None, [i \in 1 .. n |->
                          ItemData(i, fs[i].duration, fs[i].start_date,
                                   IF i = 1 THEN Some(1) ELSE None)]) :
        fs \in [1 .. n -> DateFields] }

\* schedules whose resource indexes vary: every item lasts a day and
\* starts on the Saturday or where the item before it ends
ResourceFields ==
    [start_date : Opt(ResourceStartDates), resource_index : Opt(ResourceIndexes)]

ResourceSchedules(n) ==
    { ChartData(md, [i \in 1 .. n |->
                        ItemData(i, Some(1), fs[i].start_date, fs[i].resource_index)]) :
        md \in Opt(MarkedDates), fs \in [1 .. n -> ResourceFields] }

\* schedules of two items with a marked date: the first item starts on the
\* Friday, and each of the two is a bar or a milestone
MarkedSchedules ==
    { ChartData(Some(md), <<ItemData(1, d1, Some(from_ymd(2023, 12, 29)), Some(0)),
                            ItemData(2, d2, None, None)>>) :
        md \in MarkedDates, d1 \in Opt(Durations), d2 \in Opt(Durations) }

\* the defaults of Cli: --title-width 210, --max-month-width 200
Cli(legend) ==
    [title_width |-> F(210), max_month_width |-> F(200), legend |-> legend]

\* the values rand::thread_rng() may give h
Seeds == {F(0), Rat(7, 10)}

(***************************************************************************)
(* GanttChartTool::run and main                                            *)
(***************************************************************************)
VARIABLES
    pc,           \* where run is: "process", "render", "done", "error", "exit"
    cli,          \* the parsed command line
    chart_data,   \* the ChartData read_chart_file returned
    result,       \* Some(what process_chart_data returned)
    locals,       \* Some(the locals of process_chart_data when it returned Ok)
    output,       \* Some(the document render_chart returned)
    exit_code     \* Some(the status main exits with on an error)

vars == <<pc, cli, chart_data, result, locals, output, exit_code>>

\* run has parsed the command line and read the chart file
Init ==
    /\ pc = "process"
    /\ \/ \E n \in 0 .. MaxItems :
            \/ /\ chart_data \in DateSchedules(n)
               /\ cli = Cli(FALSE)
            \/ /\ chart_data \in ResourceSchedules(n)
               /\ cli \in {Cli(legend) : legend \in BOOLEAN}
       \/ /\ chart_data \in MarkedSchedules
          /\ cli = Cli(FALSE)
    /\ result = None
    /\ locals = None
    /\ output = None
    /\ exit_code = None

\* run: self.process_chart_data(cli.title_width, cli.max_month_width, &chart_data)?
ProcessChartData ==
    /\ pc = "process"
    /\ LET geo == process_geometry(cli.title_width, cli.max_month_width, chart_data)
       IN  \E h \in Seeds :
               LET r == process_finish(cli.title_width, cli.max_month_width,
                                       chart_data, h, geo)
               IN  /\ result' = Some(r.result)
                   /\ locals' = r.locals
                   /\ pc' = IF r.result.ok THEN "render" ELSE "error"
    /\ UNCHANGED <<cli, chart_data, output, exit_code>>

\* run: self.render_chart(cli.legend, &render_data)?, and the output is written
RenderChart ==
    /\ pc = "render"
    /\ output' = Some(render_chart(cli.legend, Unwrap(result).val))
    /\ pc' = "done"
    /\ UNCHANGED <<cli, chart_data, result, locals, exit_code>>

\* main: the error is logged and the process exits with status 1
ExitWithError ==
    /\ pc = "error"
    /\ exit_code' = Some(1)
    /\ pc' = "exit"
    /\ UNCHANGED <<cli, chart_data, result, locals, output>>

Next ==
    \/ ProcessChartData
    \/ RenderChart
    \/ ExitWithError

Spec == Init /\ [][Next]_vars

(***************************************************************************)
(* What the claims speak of                                                *)
(***************************************************************************)
\* process_chart_data has returned / has returned Ok
Returned == IsSome(result)
Accepted == IsSome(result) /\ Unwrap(result).ok
Rejected == IsSome(result) /\ ~Unwrap(result).ok
RejectedWith(e) == IsSome(result) /\ Unwrap(result) = Err(e)

\* the items of the schedule, and how many there are
Items == chart_data.items
NumItems == Len(chart_data.items)

\* the RenderData returned, and the locals of the call that returned it
Chart == Unwrap(result).val
Lay == Unwrap(locals).lay
Scan == Unwrap(locals).scan

HasStart(i) == IsSome(Items[i].start_date)
HasDuration(i) == IsSome(Items[i].duration)
HasResource(i) == IsSome(Items[i].resource_index)

\* the earliest explicit start date of the schedule
ExplicitStarts == {Unwrap(Items[i].start_date) : i \in {j \in 1 .. NumItems : HasStart(j)}}
EarliestStart == CHOOSE d \in ExplicitStarts : \A e \in ExplicitStarts : d <= e

\* a date moved off a weekend: Saturday and Sunday go to the Monday after
WeekendSkipped(date) ==
    CASE weekday(date) = "Sat" -> date + 2
      [] weekday(date) = "Sun" -> date + 1
      [] OTHER -> date

\* the weekend-adjusted duration of days days counted from anchor
WeekendAdjusted(anchor, days) ==
    CASE weekday(anchor + days) = "Sat" -> days + 2
      [] weekday(anchor + days) = "Sun" -> days + 1
      [] OTHER -> days

\* the running date of the scan before item i (its anchor) and after it
RECURSIVE RunningAfter(_)
RunningBefore(i) ==
    IF HasStart(i) THEN Unwrap(Items[i].start_date) ELSE RunningAfter(i - 1)

RunningAfter(i) ==
    IF HasDuration(i)
    THEN RunningBefore(i) + WeekendAdjusted(RunningBefore(i), Unwrap(Items[i].duration))
    ELSE RunningBefore(i)

\* the latest running date the scan reaches
LatestRunning ==
    CHOOSE d \in {RunningAfter(i) : i \in 1 .. NumItems} :
        \A i \in 1 .. NumItems : RunningAfter(i) <= d

\* the first and the last day of the month of a date
FirstOfMonth(date) == MonthStart[year(date)][month(date)]
LastOfMonth(date) == FirstOfMonth(date) + MonthLength(year(date), month(date)) - 1

NormalizedStart == FirstOfMonth(WeekendSkipped(EarliestStart))
NormalizedEnd == LastOfMonth(LatestRunning)

\* the calendar months from the month of date s to the month of date e
MonthCount(s, e) ==
    IF e < s THEN 0
    ELSE (year(e) - year(s)) * 12 + (month(e) - month(s)) + 1

\* the year and the month of the k-th month (k = 1, 2, ...) from the month of s
KthYear(s, k) == year(s) + ((month(s) - 1 + (k - 1)) \div 12)
KthMonth(s, k) == ((month(s) - 1 + (k - 1)) % 12) + 1

\* equality of f32 values: a NaN equals nothing
FEq(a, b) == ~IsNaN(a) /\ ~IsNaN(b) /\ a = b

\* C1: for every schedule that layout accepts, the columns are exactly the
\* calendar months, in order, from NormalizedStart (the first day of the month
\* of the weekend-skipped earliest explicit start date) to NormalizedEnd (the
\* last day of the month of the latest running date), and there is at least one
C1_OneColumnPerMonth ==
    Accepted =>
        /\ Lay.start_date = NormalizedStart
        /\ Lay.end_date = NormalizedEnd
        /\ Len(Chart.cols) = MonthCount(NormalizedStart, NormalizedEnd)
        /\ \A k \in 1 .. Len(Chart.cols) :
               Chart.cols[k].month_name = MONTH_NAMES[KthMonth(NormalizedStart, k)]
        /\ Len(Chart.cols) >= 1

\* what of C1 the code does: the same without "at least one"
C1_MonthsOfTheRange ==
    Accepted =>
        /\ Lay.start_date = NormalizedStart
        /\ Lay.end_date = NormalizedEnd
        /\ Len(Chart.cols) = MonthCount(NormalizedStart, NormalizedEnd)
        /\ \A k \in 1 .. Len(Chart.cols) :
               Chart.cols[k].month_name = MONTH_NAMES[KthMonth(NormalizedStart, k)]

\* the shadow duration the claims give item i, which has a duration
ShadowOf(i) == WeekendAdjusted(RunningBefore(i), Unwrap(Items[i].duration))

\* totalDays and totalColumnWidth of the layout
TotalDays == Lay.num_item_days
TotalColumnWidth == FSum([k \in 1 .. Len(Chart.cols) |-> Chart.cols[k].width])

\* the pixels of d days: (d / totalDays) * totalColumnWidth
PixelsOfDays(d) == FMul(FDiv(F(d), F(TotalDays)), TotalColumnWidth)

\* item i has a duration and item i + 1 has no start date of its own
NoGapAfter(i) == i < NumItems /\ HasDuration(i) /\ ~HasStart(i + 1)

\* C2: for two consecutive items, the first with a duration of shadow duration
\* d and the second without a start date, the second row's offset minus the
\* first row's offset equals (d / totalDays) * totalColumnWidth, which is the
\* first row's bar length
C2_NextRowStartsWhereBarEnds ==
    Accepted =>
        \A i \in 1 .. NumItems :
            NoGapAfter(i) =>
                /\ FEq(FSub(Chart.rows[i + 1].offset, Chart.rows[i].offset),
                       PixelsOfDays(ShadowOf(i)))
                /\ IsSome(Chart.rows[i].length)
                /\ FEq(Unwrap(Chart.rows[i].length), PixelsOfDays(ShadowOf(i)))

\* what of C2 the code does: the same for the layouts that have a column
C2_WhenThereIsAColumn ==
    (Accepted /\ Len(Chart.cols) >= 1) =>
        \A i \in 1 .. NumItems :
            NoGapAfter(i) =>
                /\ FEq(FSub(Chart.rows[i + 1].offset, Chart.rows[i].offset),
                       PixelsOfDays(ShadowOf(i)))
                /\ IsSome(Chart.rows[i].length)
                /\ FEq(Unwrap(Chart.rows[i].length), PixelsOfDays(ShadowOf(i)))

\* C3: an item of duration days, at the running date anchor of the scan, gets
\* the shadow duration days + 2 when anchor + days is a Saturday, days + 1
\* when it is a Sunday and days otherwise; the running date advances by the
\* shadow duration and the bar length is computed from it
C3_ShadowDuration ==
    Accepted =>
        /\ Len(Scan.shadow_durations) = NumItems
        /\ \A i \in 1 .. NumItems :
               IF HasDuration(i)
               THEN /\ Scan.shadow_durations[i] = Some(ShadowOf(i))
                    /\ Chart.rows[i].length = Some(PixelsOfDays(ShadowOf(i)))
               ELSE /\ Scan.shadow_durations[i] = None
                    /\ Chart.rows[i].length = None
        /\ Scan.date = RunningAfter(NumItems)
        /\ Scan.end_date = LatestRunning

\* C3's case: an accepted schedule with a duration that lands on a Saturday
\* and a duration that lands on a Sunday
C3_Witness ==
    /\ Accepted
    /\ \E i \in 1 .. NumItems :
           /\ HasDuration(i)
           /\ weekday(RunningBefore(i) + Unwrap(Items[i].duration)) = "Sat"
    /\ \E i \in 1 .. NumItems :
           /\ HasDuration(i)
           /\ weekday(RunningBefore(i) + Unwrap(Items[i].duration)) = "Sun"

\* the errors the claims name
TooFewItems == {ErrTooFewItems}
MissingAnchor == {ErrMissingStartDate, ErrMissingResourceIndex}
ResourceIndexOutOfRange == {ErrResourceIndexOutOfRange}

\* layout has failed with an error of the set errs and returned no geometry
FailsWith(errs) ==
    /\ Rejected
    /\ Unwrap(result).err \in errs
    /\ DOMAIN Unwrap(result) = {"ok", "err"}
    /\ locals = None
    /\ output = None
    /\ pc \in {"error", "exit"}

\* item i names a resource index that is not one of the resources
OutOfRange(i) ==
    HasResource(i) /\ Unwrap(Items[i].resource_index) >= Len(chart_data.resources)

SomeOutOfRange == \E i \in 1 .. NumItems : OutOfRange(i)

\* item 0 (the first item) has a start date and a resource index
AnchorComplete == HasStart(1) /\ HasResource(1)

\* C4 as claimed: a schedule of at least two items, one of them with a
\* resource index >= resources.length, fails with ResourceIndexOutOfRange and
\* returns no geometry, whatever the other items contain
C4_OutOfRangeAlwaysReported ==
    (Returned /\ NumItems >= 2 /\ SomeOutOfRange) =>
        FailsWith(ResourceIndexOutOfRange)

\* C4 as amended: such a schedule fails and returns no geometry; the error
\* is ResourceIndexOutOfRange when item 0 has both a start date and a
\* resource index, and MissingAnchor when item 0 lacks either
C4_OutOfRangeRejected ==
    (Returned /\ NumItems >= 2 /\ SomeOutOfRange) =>
        IF AnchorComplete
        THEN FailsWith(ResourceIndexOutOfRange)
        ELSE FailsWith(MissingAnchor)

\* C4's case: a schedule rejected for the out-of-range index of an item that
\* is not the first, after two items that passed
C4_Witness ==
    /\ RejectedWith(ErrResourceIndexOutOfRange)
    /\ NumItems >= 3
    /\ ~OutOfRange(1)
    /\ ~OutOfRange(2)
    /\ OutOfRange(3)

\* C5: a schedule of at least two items whose item 0 lacks a start date or a
\* resource index fails with MissingAnchor and returns no geometry, and no
\* other item's missing field causes that error
C5_MissingAnchor ==
    (Returned /\ NumItems >= 2) =>
        /\ ~AnchorComplete => FailsWith(MissingAnchor)
        /\ (Rejected /\ Unwrap(result).err \in MissingAnchor) => ~AnchorComplete

\* C5's case: item 0 has a start date and lacks the resource index, and a
\* later item, which lacks both, is not what the error is about
C5_Witness ==
    /\ RejectedWith(ErrMissingResourceIndex)
    /\ NumItems >= 2
    /\ HasStart(1)
    /\ ~HasResource(1)
    /\ ~HasStart(2)
    /\ ~HasResource(2)

\* C6: a schedule of fewer than two items fails with TooFewItems whatever
\* else is wrong with it, and a schedule of two or more items never does
C6_TooFewItems ==
    Returned =>
        IF NumItems < 2
        THEN FailsWith(TooFewItems)
        ELSE ~(Rejected /\ Unwrap(result).err \in TooFewItems)

\* C6's case: a single item that moreover lacks its start date is rejected
\* for being single
C6_Witness ==
    /\ RejectedWith(ErrTooFewItems)
    /\ NumItems = 1
    /\ ~HasStart(1)

\* the nearest item at or before item i that has a start date / a resource index
NearestWithStart(i) ==
    CHOOSE j \in 1 .. i : HasStart(j) /\ \A k \in (j + 1) .. i : ~HasStart(k)

NearestWithResource(i) ==
    CHOOSE j \in 1 .. i : HasResource(j) /\ \A k \in (j + 1) .. i : ~HasResource(k)

\* the x offset of a date: titleColumnWidth + gutterLeft +
\* (daysFromProjectStart / totalDays) * totalColumnWidth
OffsetOfDate(date) ==
    FAdd(FAdd(cli.title_width, Chart.gutter.left), PixelsOfDays(date - NormalizedStart))

\* C7 as claimed: in an accepted schedule the row of an item without a start
\* date lies at the offset of the most recently seen explicit start date
C7_InheritsExplicitStart ==
    Accepted =>
        \A i \in 1 .. NumItems :
            ~HasStart(i) =>
                Chart.rows[i].offset =
                    OffsetOfDate(Unwrap(Items[NearestWithStart(i)].start_date))

\* C7 as amended: in an accepted schedule the row of an item without a start
\* date lies at the offset of the running date, which is the most recently
\* seen explicit start date advanced by the shadow durations of that item and
\* of the items after it up to the one before the row's item
C7_InheritsRunningDate ==
    Accepted =>
        \A i \in 1 .. NumItems :
            ~HasStart(i) => Chart.rows[i].offset = OffsetOfDate(RunningBefore(i))

\* C7's case: an accepted schedule with columns in which an item without a
\* start date follows, with one item between, an item with a start date,
\* and the running date has moved on from that start date
C7_Witness ==
    /\ Accepted
    /\ Len(Chart.cols) >= 1
    /\ NumItems >= 3
    /\ HasStart(1)
    /\ ~HasStart(2)
    /\ ~HasStart(3)
    /\ HasDuration(1)
    /\ HasDuration(2)
    /\ Unwrap(Items[1].duration) > 0
    /\ Unwrap(Items[2].duration) > 0
    /\ RunningBefore(3) > Unwrap(Items[1].start_date)
    /\ IsFinite(Chart.rows[3].offset)

\* the class of the bar render_chart draws for row i, a row with a length:
\* the second of the three nodes of the row
BarClassDrawn(i) == Unwrap(output).rows_g[3 * (i - 1) + 2].class

\* C8: in an accepted schedule row i carries the resource index of item i
\* when it has one and otherwise that of the nearest earlier item that has
\* one, never a default; every row's resource index is < resources.length,
\* and the bar is drawn in the class of that resource
C8_ResourceCarriedForward ==
    Accepted =>
        \A i \in 1 .. NumItems :
            /\ Chart.rows[i].resource_index =
                   Unwrap(Items[NearestWithResource(i)].resource_index)
            /\ Chart.rows[i].resource_index < Len(chart_data.resources)
            /\ (IsSome(output) /\ IsSome(Chart.rows[i].length)) =>
                   BarClassDrawn(i) \in
                       { "resource-"
                           \o ToString(Unwrap(Items[NearestWithResource(i)].resource_index))
                           \o suffix : suffix \in {"-open", "-closed"} }

\* C8's case: a drawn chart whose third item has no resource index and
\* follows an item with index 1, which follows an item with index 0
C8_Witness ==
    /\ Accepted
    /\ IsSome(output)
    /\ NumItems >= 3
    /\ Items[1].resource_index = Some(0)
    /\ Items[2].resource_index = Some(1)
    /\ ~HasResource(3)
    /\ Chart.rows[3].resource_index = 1

\* the days from date s to date e, both included
DaysInRange(s, e) == IF e < s THEN 0 ELSE e - s + 1

\* the days of the k-th column's month
ColumnDays(k) ==
    MonthLength(KthYear(NormalizedStart, k), KthMonth(NormalizedStart, k))

RECURSIVE SumColumnDays(_)
SumColumnDays(k) ==
    IF k = 0 THEN 0 ELSE SumColumnDays(k - 1) + ColumnDays(k)

Hue == Unwrap(locals).h

\* what a run of process_chart_data on the same schedule and widths returns
\* when it draws the hue h
Rerun(h) ==
    process_chart_data(cli.title_width, cli.max_month_width, chart_data, h)

\* a RenderData, or a document, with the style rules left out
WithoutStyles(chart) == [chart EXCEPT !.styles = <<>>]
WithoutStyle(doc) == [doc EXCEPT !.style = <<>>]

\* the run with the hue h of the geometry geo agrees with the run recorded:
\* in everything when h is the hue drawn, in everything but the style rules
\* otherwise
SameButStyles(h, again) ==
    /\ again.ok
    /\ WithoutStyles(again.val) = WithoutStyles(Chart)
    /\ (h = Hue) => again = Unwrap(result)
    /\ WithoutStyle(render_chart(cli.legend, again.val)) = WithoutStyle(Unwrap(output))
    /\ (h = Hue) => render_chart(cli.legend, again.val) = Unwrap(output)

RowShapeDrawn(i) == Unwrap(output).rows_g[3 * (i - 1) + 2].tag

\* C11: in an accepted schedule there is one row per item, in the items'
\* order; row i has a length exactly when item i has a duration, and is
\* drawn as a bar then and as a milestone otherwise; the marker offset is
\* there, and the marker drawn, exactly when the schedule has a marked date
C11_RowsAndMarker ==
    Accepted =>
        /\ Len(Chart.rows) = NumItems
        /\ \A i \in 1 .. NumItems :
               /\ Chart.rows[i].title = Items[i].title
               /\ IsSome(Chart.rows[i].length) <=> HasDuration(i)
               /\ IsSome(output) =>
                      RowShapeDrawn(i) = IF HasDuration(i) THEN "rect" ELSE "path"
        /\ IsSome(Chart.marked_date_offset) <=> IsSome(chart_data.marked_date)
        /\ IsSome(output) =>
               (Len(Unwrap(output).marker) = 1 <=> IsSome(chart_data.marked_date))
        /\ IsSome(output) =>
               (Unwrap(output).marker = <<>> <=> ~IsSome(chart_data.marked_date))

\* C11's case: a drawn chart of a schedule with a marked date whose first
\* item is a bar and whose second item is a milestone
C11_Witness ==
    /\ Accepted
    /\ IsSome(output)
    /\ NumItems = 2
    /\ IsSome(chart_data.marked_date)
    /\ HasDuration(1)
    /\ Unwrap(Items[1].duration) > 0
    /\ ~HasDuration(2)
    /\ IsSome(Chart.rows[1].length)
    /\ ~IsSome(Chart.rows[2].length)
    /\ Len(Unwrap(output).marker) = 1

\* the x coordinate of the month label render_chart draws for column k
LabelDrawnAt(k) == Unwrap(output).cols_g[2 * (k - 1) + 1].at[1]

\* the left edge of column k: gutterLeft + titleWidth + the widths of the
\* columns before it
LeftEdge(k) ==
    FAdd(FAdd(Chart.gutter.left, cli.title_width),
         FSum([j \in 1 .. (k - 1) |-> Chart.cols[j].width]))

\* C12: in a drawn chart the month label of every column lies at the
\* column's left edge plus half of the column's own width
C12_LabelCentered ==
    (Accepted /\ IsSome(output)) =>
        \A k \in 1 .. Len(Chart.cols) :
            FEq(LabelDrawnAt(k),
                FAdd(LeftEdge(k), FDiv(Chart.cols[k].width, F(2))))

\* what holds of the label instead: it lies at the left edge plus half of
\* maxMonthWidth, which is the centre of the column in a month of 31 days
\* and right of the centre in every shorter month
C12_LabelAtHalfMaxMonthWidth ==
    (Accepted /\ IsSome(output)) =>
        \A k \in 1 .. Len(Chart.cols) :
            /\ FEq(LabelDrawnAt(k),
                   FAdd(LeftEdge(k), FDiv(cli.max_month_width, F(2))))
            /\ FEq(LabelDrawnAt(k),
                   FAdd(LeftEdge(k), FDiv(Chart.cols[k].width, F(2))))
                   <=> ColumnDays(k) = 31

\* no item has a negative duration
NonNegativeDurations ==
    \A i \in 1 .. NumItems : HasDuration(i) => Unwrap(Items[i].duration) >= 0

\* the left edge of the month columns: titleColumnWidth + gutterLeft
ColumnsLeft == FAdd(cli.title_width, Chart.gutter.left)

\* row i lies inside the month columns: it starts at or right of their left
\* edge, and a bar ends at or left of their right edge
RowInside(i) ==
    /\ FLe(ColumnsLeft, Chart.rows[i].offset)
    /\ IsSome(Chart.rows[i].length) =>
           FLe(FAdd(Chart.rows[i].offset, Unwrap(Chart.rows[i].length)),
               FAdd(ColumnsLeft, TotalColumnWidth))

\* C13: in an accepted schedule without negative durations every row lies
\* inside the month columns, also when an explicit start date is a Saturday
\* or Sunday at the end of a month
C13_RowsInsideColumns ==
    (Accepted /\ NonNegativeDurations) =>
        \A i \in 1 .. NumItems : RowInside(i)

\* what holds instead: the rows lie inside the month columns when the
\* earliest explicit start date, moved off the weekend, is still in its month
C13_InsideWhenStartStaysInMonth ==
    (Accepted /\ NonNegativeDurations
        /\ month(WeekendSkipped(EarliestStart)) = month(EarliestStart)) =>
        \A i \in 1 .. NumItems : RowInside(i)

\* the first row alone, in the layouts that have a column: it starts at or
\* right of the left edge of the month columns
C13_StartsLeftOfColumns ==
    (Accepted /\ NonNegativeDurations /\ Len(Chart.cols) >= 1) =>
        FLe(ColumnsLeft, Chart.rows[1].offset)

====
